---- MODULE Spec2Model ----
(***************************************************************************)
(* Model of src/main.py: the /ws job-execution endpoint of RunYourCide.    *)
(*                                                                         *)
(* One session is modelled: the coroutine websocket_endpoint, the two      *)
(* stdio_handler tasks that asyncio.gather runs, the client at the other   *)
(* end of the websocket, and the container engine.  The handler's steps    *)
(* are cut at its await points; the synchronous code between two awaits    *)
(* is one step, except the file loop, which is cut per file.               *)
(***************************************************************************)
EXTENDS Integers, Sequences, FiniteSets, TLC

\* ------------------------------------------------------------- bounds
\* Longest "files" list a client submits.
MaxFiles == 2
\* Most lines the container prints on one stream.
MaxLines == 2

\* ------------------------------------------------- program constants
WS_1001_GOING_AWAY == 1001

\* Exit codes the container's process may end with.
ExitCodes == {0, 1}
Streams == {"stdout", "stderr"}

\* --------------------------------------------------------- file names
\* A file name is its sequence of path segments; a first segment "/" marks an
\* absolute path.
Names ==
    { <<"run.sh">>,          \* run.sh
      <<"..", "x">>,         \* ../x
      <<"/", "x">> }         \* /x

\* The directory tempfile.TemporaryDirectory creates.
TempDirPath == <<"tmp", "code-runner-jobs-1">>

\* Directories that exist on the host apart from the temporary one.
HostDirs == { <<>>, <<"tmp">> }

IsAbsolute(name) == Len(name) > 0 /\ name[1] = "/"

\* pathlib's  p / name : an absolute right operand replaces the left one.
JoinPath(p, name) == IF IsAbsolute(name) THEN Tail(name) ELSE p \o name

\* What the operating system makes of a path: ".." leaves the directory.
RECURSIVE Resolve(_, _)
Resolve(done, rest) ==
    IF rest = <<>> THEN done
    ELSE IF Head(rest) = ".."
         THEN Resolve(IF done = <<>> THEN <<>> ELSE SubSeq(done, 1, Len(done) - 1),
                      Tail(rest))
         ELSE Resolve(Append(done, Head(rest)), Tail(rest))

\* The file (p / file.name).write_text writes.
WriteTarget(name) == Resolve(<<>>, JoinPath(TempDirPath, name))

IsUnder(path, dir) ==
    /\ Len(path) > Len(dir)
    /\ SubSeq(path, 1, Len(dir)) = dir

ParentOf(path) == SubSeq(path, 1, Len(path) - 1)

\* ----------------------------------------------------------- messages
\* The first inbound message.  kind "array" is any JSON value that is not
\* an object.  A required field is "absent", "ok" (right type) or "bad" (wrong
\* type).  env is "ok" (absent, which the default makes {}, or a mapping of
\* strings) or "bad".  The names of a well-typed files list travel beside the
\* message, in the variable files.
Messages ==
    { [kind |-> "array", image |-> "absent", files |-> "absent", cmd |-> "absent",
       env |-> "ok"] }
    \cup
    [kind : {"object"}, image : {"absent", "ok", "bad"}, files : {"absent", "ok", "bad"},
     cmd : {"absent", "ok", "bad"}, env : {"ok", "bad"}]

NoMsg == [kind |-> "none", image |-> "absent", files |-> "absent", cmd |-> "absent",
          env |-> "ok"]

\* The files lists a message with a well-typed files field may carry: up to
\* MaxFiles names, no name twice.
FileLists(m) ==
    IF m.files = "ok"
    THEN { l \in UNION { [1..n -> Names] : n \in 0..MaxFiles } :
             \A i, j \in 1..Len(l) : l[i] = l[j] => i = j }
    ELSE { <<>> }

\* Outbound payloads, one record shape for all three.
DataMsg(s, t) == [type |-> "data", stream |-> s, text |-> t, code |-> -1, errors |-> {}]
ExitMsg(c) == [type |-> "exit", stream |-> "-", text |-> 0, code |-> c, errors |-> {}]
ErrorMsg(e) == [type |-> "error", stream |-> "-", text |-> 0, code |-> -1, errors |-> e]

\* --------------------------------------------------------- validation
\* class JobSubmissionFile: name and content are strings; nothing more is
\* asked of a name.
JobSubmissionFile(name) == TRUE

\* JobSubmission with files given a default, as env has.
JobSubmissionFilesOptional(m, l) ==
    { [loc |-> f, type |-> "missing"] :
        f \in {g \in {"image", "cmd"} : m[g] = "absent"} }
    \cup
    { [loc |-> f, type |-> "type"] :
        f \in {g \in {"image", "files", "cmd", "env"} : m[g] = "bad"} }

\* class JobSubmission: the errors pydantic reports.  image, files and cmd are
\* required; env defaults to {}.
JobSubmission(m, l) ==
    { [loc |-> f, type |-> "missing"] :
        f \in {g \in {"image", "files", "cmd"} : m[g] = "absent"} }
    \cup
    { [loc |-> f, type |-> "type"] :
        f \in {g \in {"image", "files", "cmd", "env"} : m[g] = "bad"} }
    \cup
    { [loc |-> "files", type |-> "type"] :
        i \in {k \in 1..Len(l) : ~JobSubmissionFile(l[k])} }

VARIABLES
    pc,          \* where websocket_endpoint stands
    msg,         \* the message receive_json returned
    clientGone,  \* the client has disconnected
    closed,      \* the websocket.close call made: [code, reason], code 0 = none
    wire,        \* payloads send_json has delivered, in order
    docker,      \* the aiodocker.Docker client: "none", "open", "closed"
    tempdir,     \* the temporary directory: "none", "exists", "removed"
    fs,          \* files written on the host, as resolved paths
    files,       \* the names of the files list; from staging on, those the
                 \* for loop has yet to write
    fileIdx,     \* files of job.files written so far
    container,   \* the engine's container: "none", "running", "exited", "removed"
    exitCode,    \* the exit code of the container's process
    produced,    \* per stream, the lines the engine has put on the log feed
    eos,         \* per stream, the engine has ended the log feed
    task,        \* per stream, the stdio_handler task: [pc, taken]
    res          \* the status code container.wait returned

vars == <<pc, msg, clientGone, closed, wire, docker, tempdir, fs, files, fileIdx,
          container, exitCode, produced, eos, task, res>>

NoClose == [code |-> 0, reason |-> "-"]

Ended == pc \in {"returned", "raised"}

Init ==
    /\ pc = "receive"
    /\ msg = NoMsg
    /\ clientGone = FALSE
    /\ closed = NoClose
    /\ wire = <<>>
    /\ docker = "none"
    /\ tempdir = "none"
    /\ fs = {}
    /\ files = <<>>
    /\ fileIdx = 0
    /\ container = "none"
    /\ exitCode = -1
    /\ produced = [s \in Streams |-> <<>>]
    /\ eos = [s \in Streams |-> FALSE]
    /\ task = [s \in Streams |-> [pc |-> "unborn", taken |-> 0]]
    /\ res = -1

\* ------------------------------------------------------------ helpers
\* Leaving the  with tempfile.TemporaryDirectory  block, by its end or by an
\* exception: the directory and all below it are deleted.
TemporaryDirectoryExit ==
    /\ tempdir' = "removed"
    /\ fs' = {p \in fs : ~IsUnder(p, TempDirPath)}

\* await websocket.send_json(payload) made by the handler itself: the payload
\* is delivered, or the call raises because the client is gone.
SendJson(payload, next) ==
    IF clientGone
    THEN /\ pc' = "raised"
         /\ wire' = wire
    ELSE /\ pc' = next
         /\ wire' = Append(wire, payload)

AllDone == \A s \in Streams : task[s].pc = "done"
SomeFailed == \E s \in Streams : task[s].pc = "failed"
Alive(s) == task[s].pc \in {"next", "send"}

\* ------------------------------------------------ websocket_endpoint
\* msg = await websocket.receive_json()  returns a message.
Receive(m, l) ==
    /\ pc = "receive"
    /\ ~clientGone
    /\ msg' = m
    /\ files' = l
    /\ pc' = "validate"
    /\ UNCHANGED <<clientGone, closed, wire, docker, tempdir, fs, fileIdx,
                   container, exitCode, produced, eos, task, res>>

\* asyncio.timeout(1) expires before a message arrives.
ReceiveTimeout ==
    /\ pc = "receive"
    /\ ~clientGone
    /\ pc' = "timeout"
    /\ UNCHANGED <<msg, clientGone, closed, wire, docker, tempdir, fs, files, fileIdx,
                   container, exitCode, produced, eos, task, res>>

\* receive_json raises WebSocketDisconnect: nothing catches it.
ReceiveDisconnect ==
    /\ pc = "receive"
    /\ clientGone
    /\ pc' = "raised"
    /\ UNCHANGED <<msg, clientGone, closed, wire, docker, tempdir, fs, files, fileIdx,
                   container, exitCode, produced, eos, task, res>>

\* The timeout branch returning without the close call.
TimeoutCloseSilent ==
    /\ pc = "timeout"
    /\ pc' = "returned"
    /\ UNCHANGED <<msg, clientGone, closed, wire, docker, tempdir, fs, files, fileIdx,
                   container, exitCode, produced, eos, task, res>>

\* except asyncio.TimeoutError: close with 1001 and return.
TimeoutClose ==
    /\ pc = "timeout"
    /\ closed' = [code |-> WS_1001_GOING_AWAY, reason |-> "Timeout on waiting for a message"]
    /\ pc' = "returned"
    /\ UNCHANGED <<msg, clientGone, wire, docker, tempdir, fs, files, fileIdx,
                   container, exitCode, produced, eos, task, res>>

\* JobSubmission(**msg) with msg not a mapping: TypeError, which the
\* except ValidationError clause does not catch.
ValidateTypeError ==
    /\ pc = "validate"
    /\ msg.kind # "object"
    /\ pc' = "raised"
    /\ UNCHANGED <<msg, clientGone, closed, wire, docker, tempdir, fs, files, fileIdx,
                   container, exitCode, produced, eos, task, res>>

\* except ValidationError: send {"error": e.errors()} and return.
ValidateReject ==
    /\ pc = "validate"
    /\ msg.kind = "object"
    /\ JobSubmission(msg, files) # {}
    /\ SendJson(ErrorMsg(JobSubmission(msg, files)), "returned")
    /\ UNCHANGED <<msg, clientGone, closed, docker, tempdir, fs, files, fileIdx,
                   container, exitCode, produced, eos, task, res>>

\* Validation succeeds: open the engine client and enter the with block.
ValidateAccept ==
    /\ pc = "validate"
    /\ msg.kind = "object"
    /\ JobSubmission(msg, files) = {}
    /\ docker' = "open"
    /\ tempdir' = "exists"
    /\ fileIdx' = 0
    /\ pc' = "stage"
    /\ UNCHANGED <<msg, clientGone, closed, wire, fs, files,
                   container, exitCode, produced, eos, task, res>>

\* One turn of  for file in job.files: (p / file.name).write_text(...).
\* The write fails when the target's directory does not exist.
WriteFile ==
    /\ pc = "stage"
    /\ files # <<>>
    /\ LET target == WriteTarget(Head(files)) IN
       IF Len(target) > 0 /\ ParentOf(target) \in HostDirs \cup {TempDirPath}
       THEN /\ fs' = fs \cup {target}
            /\ files' = Tail(files)
            /\ fileIdx' = fileIdx + 1
            /\ UNCHANGED <<pc, tempdir>>
       ELSE /\ TemporaryDirectoryExit
            /\ pc' = "raised"
            /\ UNCHANGED <<files, fileIdx>>
    /\ UNCHANGED <<msg, clientGone, closed, wire, docker,
                   container, exitCode, produced, eos, task, res>>

\* write_text raises OSError for a cause outside the program (disk full).
WriteFileError ==
    /\ pc = "stage"
    /\ files # <<>>
    /\ TemporaryDirectoryExit
    /\ pc' = "raised"
    /\ UNCHANGED <<msg, clientGone, closed, wire, docker, files, fileIdx,
                   container, exitCode, produced, eos, task, res>>

\* A launch issued before the file loop has finished.
LaunchEarly ==
    /\ pc = "stage"
    /\ container' = "running"
    /\ task' = [s \in Streams |-> [pc |-> "next", taken |-> 0]]
    /\ pc' = "gather"
    /\ UNCHANGED <<msg, clientGone, closed, wire, docker, tempdir, fs, files, fileIdx,
                   exitCode, produced, eos, res>>

\* container = await docker.containers.run(...) succeeds; asyncio.gather
\* then starts the two stdio_handler tasks.
Launch ==
    /\ pc = "stage"
    /\ files = <<>>
    /\ container' = "running"
    /\ task' = [s \in Streams |-> [pc |-> "next", taken |-> 0]]
    /\ pc' = "gather"
    /\ UNCHANGED <<msg, clientGone, closed, wire, docker, tempdir, fs, files, fileIdx,
                   exitCode, produced, eos, res>>

\* docker.containers.run raises (image not found, engine unreachable).
LaunchError ==
    /\ pc = "stage"
    /\ files = <<>>
    /\ TemporaryDirectoryExit
    /\ pc' = "raised"
    /\ UNCHANGED <<msg, clientGone, closed, wire, docker, files, fileIdx,
                   container, exitCode, produced, eos, task, res>>

\* A gather that returns as soon as one of the tasks has finished.
GatherReturnEarly ==
    /\ pc = "gather"
    /\ \E s \in Streams : task[s].pc = "done"
    /\ ~SomeFailed
    /\ TemporaryDirectoryExit
    /\ pc' = "wait"
    /\ UNCHANGED <<msg, clientGone, closed, wire, docker, files, fileIdx,
                   container, exitCode, produced, eos, task, res>>

\* asyncio.gather returns once both tasks have finished; the with block ends.
GatherReturn ==
    /\ pc = "gather"
    /\ AllDone
    /\ TemporaryDirectoryExit
    /\ pc' = "wait"
    /\ UNCHANGED <<msg, clientGone, closed, wire, docker, files, fileIdx,
                   container, exitCode, produced, eos, task, res>>

\* The exception of a task leaving the handler with the directory kept, as
\* cleanup at the end of the function would.
GatherRaiseLeak ==
    /\ pc = "gather"
    /\ SomeFailed
    /\ pc' = "raised"
    /\ UNCHANGED <<msg, clientGone, closed, wire, docker, tempdir, fs, files, fileIdx,
                   container, exitCode, produced, eos, task, res>>

\* asyncio.gather re-raises the first exception of a task; the other task is
\* left running.  The exception leaves the with block.
GatherRaise ==
    /\ pc = "gather"
    /\ SomeFailed
    /\ TemporaryDirectoryExit
    /\ pc' = "raised"
    /\ UNCHANGED <<msg, clientGone, closed, wire, docker, files, fileIdx,
                   container, exitCode, produced, eos, task, res>>

\* A wait that returns at once, with the code of a clean exit when the process
\* has none yet.
WaitNoBlock ==
    /\ pc = "wait"
    /\ container # "removed"
    /\ res' = IF container = "exited" THEN exitCode ELSE 0
    /\ pc' = "send_exit"
    /\ UNCHANGED <<msg, clientGone, closed, wire, docker, tempdir, fs, files, fileIdx,
                   container, exitCode, produced, eos, task>>

\* res = await container.wait()  returns the status code.
Wait ==
    /\ pc = "wait"
    /\ container = "exited"
    /\ res' = exitCode
    /\ pc' = "send_exit"
    /\ UNCHANGED <<msg, clientGone, closed, wire, docker, tempdir, fs, files, fileIdx,
                   container, exitCode, produced, eos, task>>

\* container.wait() raises: the engine has already auto-removed the container.
WaitError ==
    /\ pc = "wait"
    /\ container = "removed"
    /\ pc' = "raised"
    /\ UNCHANGED <<msg, clientGone, closed, wire, docker, tempdir, fs, files, fileIdx,
                   container, exitCode, produced, eos, task, res>>

\* await websocket.send_json({"type": "exit", "code": res["StatusCode"]}).
SendExit ==
    /\ pc = "send_exit"
    /\ SendJson(ExitMsg(res), "close_docker")
    /\ UNCHANGED <<msg, clientGone, closed, docker, tempdir, fs, files, fileIdx,
                   container, exitCode, produced, eos, task, res>>

\* await docker.close(), then the function returns.
DockerClose ==
    /\ pc = "close_docker"
    /\ docker' = "closed"
    /\ pc' = "returned"
    /\ UNCHANGED <<msg, clientGone, closed, wire, tempdir, fs, files, fileIdx,
                   container, exitCode, produced, eos, task, res>>

\* ------------------------------------------------------ stdio_handler
\* Draining the streams one after the other: stderr is read only once the
\* stdout task has returned.
TaskNextInTurn(s) ==
    /\ task[s].pc = "next"
    /\ task[s].taken < Len(produced[s])
    /\ s = "stderr" => task["stdout"].pc = "done"
    /\ task' = [task EXCEPT ![s] = [pc |-> "send", taken |-> task[s].taken + 1]]
    /\ UNCHANGED <<pc, msg, clientGone, closed, wire, docker, tempdir, fs, files, fileIdx,
                   container, exitCode, produced, eos, res>>

\* async for line in stream: the next line arrives and the task enters
\* websocket.send_json with it.
TaskNext(s) ==
    /\ task[s].pc = "next"
    /\ task[s].taken < Len(produced[s])
    /\ task' = [task EXCEPT ![s] = [pc |-> "send", taken |-> task[s].taken + 1]]
    /\ UNCHANGED <<pc, msg, clientGone, closed, wire, docker, tempdir, fs, files, fileIdx,
                   container, exitCode, produced, eos, res>>

\* A task that sends the first line of the stream again and again.
CurrentLineFirst(s) == produced[s][1]

\* The line the task is sending.
CurrentLine(s) == produced[s][task[s].taken]

\* await websocket.send_json({"type": "data", ...}) completes, or raises
\* because the client is gone.
TaskSend(s) ==
    /\ task[s].pc = "send"
    /\ IF clientGone
       THEN /\ task' = [task EXCEPT ![s].pc = "failed"]
            /\ wire' = wire
       ELSE /\ task' = [task EXCEPT ![s].pc = "next"]
            /\ wire' = Append(wire, DataMsg(s, CurrentLine(s)))
    /\ UNCHANGED <<pc, msg, clientGone, closed, docker, tempdir, fs, files, fileIdx,
                   container, exitCode, produced, eos, res>>

\* The stream is exhausted: the async for ends and the task returns.
TaskEnd(s) ==
    /\ task[s].pc = "next"
    /\ task[s].taken = Len(produced[s])
    /\ eos[s]
    /\ task' = [task EXCEPT ![s].pc = "done"]
    /\ UNCHANGED <<pc, msg, clientGone, closed, wire, docker, tempdir, fs, files, fileIdx,
                   container, exitCode, produced, eos, res>>

\* Reading the log feed raises (engine error in mid-stream).
TaskStreamError(s) ==
    /\ task[s].pc = "next"
    /\ ~eos[s]
    /\ task' = [task EXCEPT ![s].pc = "failed"]
    /\ UNCHANGED <<pc, msg, clientGone, closed, wire, docker, tempdir, fs, files, fileIdx,
                   container, exitCode, produced, eos, res>>

\* -------------------------------------------------- the environment
\* Someone is left to see what the client and the engine do: the handler has
\* not ended, or a stdio_handler task still runs.
Observed == ~Ended \/ \E s \in Streams : Alive(s)

\* The client goes away.
ClientDisconnect ==
    /\ ~clientGone
    /\ closed = NoClose
    /\ Observed
    /\ clientGone' = TRUE
    /\ UNCHANGED <<pc, msg, closed, wire, docker, tempdir, fs, files, fileIdx,
                   container, exitCode, produced, eos, task, res>>

\* The container's process prints a line on a stream.
EmitLine(s) ==
    /\ Observed
    /\ container = "running"
    /\ ~eos[s]
    /\ Len(produced[s]) < MaxLines
    /\ produced' = [produced EXCEPT ![s] = Append(@, Len(@) + 1)]
    /\ UNCHANGED <<pc, msg, clientGone, closed, wire, docker, tempdir, fs, files, fileIdx,
                   container, exitCode, eos, task, res>>

\* The engine ends a log feed.
StreamEnd(s) ==
    /\ Observed
    /\ container # "none"
    /\ ~eos[s]
    /\ eos' = [eos EXCEPT ![s] = TRUE]
    /\ UNCHANGED <<pc, msg, clientGone, closed, wire, docker, tempdir, fs, files, fileIdx,
                   container, exitCode, produced, task, res>>

\* The container's process exits.
ContainerExit(c) ==
    /\ Observed
    /\ container = "running"
    /\ container' = "exited"
    /\ exitCode' = c
    /\ UNCHANGED <<pc, msg, clientGone, closed, wire, docker, tempdir, fs, files, fileIdx,
                   produced, eos, task, res>>

\* HostConfig.AutoRemove: the engine removes the exited container.
AutoRemove ==
    /\ Observed
    /\ container = "exited"
    /\ container' = "removed"
    /\ UNCHANGED <<pc, msg, clientGone, closed, wire, docker, tempdir, fs, files, fileIdx,
                   exitCode, produced, eos, task, res>>

stdio_handler(s) ==
    \/ TaskNext(s)
    \/ TaskSend(s)
    \/ TaskEnd(s)
    \/ TaskStreamError(s)

\* The steps of the handler after the receive_json call was made.
AfterReceive ==
    \/ ReceiveTimeout
    \/ ReceiveDisconnect
    \/ TimeoutClose
    \/ ValidateTypeError
    \/ ValidateReject
    \/ ValidateAccept
    \/ WriteFile
    \/ WriteFileError
    \/ Launch
    \/ LaunchError
    \/ GatherReturn
    \/ GatherRaise
    \/ Wait
    \/ WaitError
    \/ SendExit
    \/ DockerClose

websocket_endpoint ==
    \/ \E m \in Messages : \E l \in FileLists(m) : Receive(m, l)
    \/ AfterReceive

Engine ==
    \/ \E s \in Streams : EmitLine(s)
    \/ \E s \in Streams : StreamEnd(s)
    \/ \E c \in ExitCodes : ContainerExit(c)
    \/ AutoRemove

Next ==
    \/ websocket_endpoint
    \/ \E s \in Streams : stdio_handler(s)
    \/ ClientDisconnect
    \/ Engine

Spec == Init /\ [][Next]_vars

\* The session under the scheduling of the asyncio event loop, which runs
\* every task that is ready: a stdio_handler whose next line has arrived takes
\* it, and one inside a send leaves it.  Nothing is assumed of the engine or of
\* the client.  The files list is empty or holds run.sh alone: the streaming
\* step does not read it.
SmallFileLists(m) == FileLists(m) \cap { <<>>, << <<"run.sh">> >> }

FairNext ==
    \/ \E m \in Messages : \E l \in SmallFileLists(m) : Receive(m, l)
    \/ AfterReceive
    \/ \E s \in Streams : stdio_handler(s)
    \/ ClientDisconnect
    \/ Engine

FairSpec ==
    /\ Init
    /\ [][FairNext]_vars
    /\ \A s \in Streams : WF_vars(TaskNext(s)) /\ WF_vars(TaskSend(s))

\* ------------------------------------------------------------- claims
ExitMsgs == SelectSeq(wire, LAMBDA m : m.type = "exit")
DataMsgs == SelectSeq(wire, LAMBDA m : m.type = "data")
ErrorMsgs == SelectSeq(wire, LAMBDA m : m.type = "error")

\* The texts of the data messages of stream s, in the order they were sent.
RECURSIVE TextsOf(_, _)
TextsOf(w, s) ==
    IF w = <<>> THEN <<>>
    ELSE IF Head(w).type = "data" /\ Head(w).stream = s
         THEN <<Head(w).text>> \o TextsOf(Tail(w), s)
         ELSE TextsOf(Tail(w), s)

\* The message received is an object that validation accepts.
PassedValidation == msg.kind = "object" /\ JobSubmission(msg, <<>>) = {}

\* A message was received and validation did not accept it.
FailedValidation == msg.kind # "none" /\ ~PassedValidation

\* A name with a parent-directory segment, or an absolute one.
Escapes(name) == IsAbsolute(name) \/ \E i \in 1..Len(name) : name[i] = ".."

\* C1 as stated: every session whose submission passes validation sends
\* exactly one exit message, and it is the last message.
C1_ExitForEveryValid ==
    (Ended /\ PassedValidation) =>
        /\ Len(ExitMsgs) = 1
        /\ wire[Len(wire)].type = "exit"

\* C1, amended: at most one exit message is ever sent; once it is sent it is
\* the last message on the connection, both tasks have finished and every line
\* of either stream was sent before it; and a session whose submission passes
\* validation and whose handler runs to its end has sent exactly one.
C1_ExitOnceAndLast ==
    /\ Len(ExitMsgs) <= 1
    /\ Len(ExitMsgs) = 1 =>
          /\ wire[Len(wire)].type = "exit"
          /\ \A s \in Streams : task[s].pc = "done" /\ TextsOf(wire, s) = produced[s]
    /\ (pc = "returned" /\ PassedValidation) => Len(ExitMsgs) = 1

\* A session that ran to its end with data of both streams before the exit.
C1_Witness ==
    /\ pc = "returned"
    /\ PassedValidation
    /\ Len(wire) = 3
    /\ wire[1].type = "data" /\ wire[1].stream = "stderr"
    /\ wire[2].type = "data" /\ wire[2].stream = "stdout"
    /\ wire[3] = ExitMsg(1)

\* C2: when the handshake times out the server closes with 1001 and the
\* timeout reason, and the session creates no workspace, launches no container
\* and sends no message.
C2_TimeoutClosesGoingAway ==
    /\ (pc = "timeout" \/ (pc = "returned" /\ msg = NoMsg)) =>
          /\ tempdir = "none" /\ fs = {}
          /\ container = "none" /\ docker = "none"
          /\ wire = <<>>
    /\ (pc = "returned" /\ msg = NoMsg) =>
          closed = [code |-> 1001, reason |-> "Timeout on waiting for a message"]

\* The session that ended by the handshake timeout.
C2_Witness ==
    /\ pc = "returned"
    /\ msg = NoMsg
    /\ closed.code = 1001

\* C3: every submission that fails validation is answered with an error
\* payload (the client still being there to take it), and the session writes
\* no file, launches no container and sends no data or exit message.
C3_InvalidGetsError ==
    (Ended /\ FailedValidation) =>
        /\ ~clientGone => Len(ErrorMsgs) = 1
        /\ tempdir = "none" /\ fs = {}
        /\ container = "none"
        /\ DataMsgs = <<>> /\ ExitMsgs = <<>>

\* C4: the data messages of a stream are the lines of that stream the task
\* has forwarded, in the engine's order, none dropped and none twice.
C4_StreamOrder ==
    \A s \in Streams :
        LET sent == TextsOf(wire, s) IN
        /\ Len(sent) <= Len(produced[s])
        /\ sent = SubSeq(produced[s], 1, Len(sent))
        /\ task[s].pc \in {"next", "done"} => Len(sent) = task[s].taken
        /\ task[s].pc = "send" => Len(sent) = task[s].taken - 1
        /\ task[s].pc = "done" => sent = produced[s]

\* Two lines of each stream sent, the streams interleaved.
C4_Witness ==
    /\ Len(wire) = 4
    /\ wire[1] = DataMsg("stdout", 1)
    /\ wire[2] = DataMsg("stderr", 1)
    /\ wire[3] = DataMsg("stderr", 2)
    /\ wire[4] = DataMsg("stdout", 2)

\* C5: when the session has ended the workspace directory is gone, and no
\* file is left below it, whichever way the session ended.
C5_WorkspaceRemoved ==
    Ended =>
        /\ tempdir # "exists"
        /\ \A p \in fs : ~IsUnder(p, TempDirPath)

\* The session ended by a client disconnect in mid-stream, with a file staged
\* and the container still running.
C5_Witness ==
    /\ pc = "raised"
    /\ clientGone
    /\ fileIdx > 0
    /\ container = "running"
    /\ tempdir = "removed"

\* C6: a submission with a file name that has a parent-directory segment or
\* is absolute is rejected by validation: staging never holds such a name and
\* no write lands outside the workspace root.
C6_EscapingNamesRejected ==
    /\ pc = "stage" => \A i \in 1..Len(files) : ~Escapes(files[i])
    /\ \A p \in fs : IsUnder(p, TempDirPath)

\* C7: when validation fails the handler closes the connection after the
\* error payload.
C7_ClosedAfterError ==
    (pc = "returned" /\ ErrorMsgs # <<>>) => closed # NoClose

\* C8: after the exit message the handler closes the connection with a normal
\* closure.
C8_ClosedAfterExit ==
    (pc = "returned" /\ ExitMsgs # <<>>) => closed.code = 1000

\* A message with image and cmd and no files field.
NoFilesField ==
    /\ msg.kind = "object"
    /\ msg.image = "ok" /\ msg.cmd = "ok" /\ msg.env = "ok"
    /\ msg.files = "absent"

\* Neither stream carries a line.
PrintsNothing == \A s \in Streams : produced[s] = <<>>

\* C9 as stated: a submission with image and cmd and no files field is run,
\* and for a command that prints nothing the exit message is all that is sent.
C9_NoFilesAccepted ==
    (pc = "returned" /\ NoFilesField /\ PrintsNothing) => wire = <<ExitMsg(exitCode)>>

\* C9, amended: a submission with image and cmd and no files field is answered
\* with the error payload that names files as missing, and nothing is run; with
\* an empty files list it is run, and for a command that prints nothing and
\* exits with code c a session that runs to its end sends the exit message with
\* code c and nothing else.
C9_EmptyFilesAccepted ==
    /\ (Ended /\ NoFilesField) =>
          /\ ~clientGone => wire = <<ErrorMsg({[loc |-> "files", type |-> "missing"]})>>
          /\ ExitMsgs = <<>>
          /\ tempdir = "none" /\ container = "none"
    /\ (pc = "returned" /\ PassedValidation /\ fileIdx = 0 /\ PrintsNothing) =>
          wire = <<ExitMsg(exitCode)>>

\* An empty files list, a silent command that exits with 1, the exit reported.
C9_Witness ==
    /\ pc = "returned"
    /\ msg.files = "ok"
    /\ fileIdx = 0
    /\ PrintsNothing
    /\ exitCode = 1
    /\ wire = <<ExitMsg(1)>>

\* C10: the two tasks are never inside a send on the connection at once.
C10_SendsSerialized ==
    ~(task["stdout"].pc = "send" /\ task["stderr"].pc = "send")

\* C11: the exit message is sent only when the container's process has
\* exited, and the code it carries is the one the wait on the container
\* returned, the exit code of the process; with both log feeds at their end
\* and the process still running the handler stays in the wait.
C11_ExitAfterContainerExit ==
    /\ pc \in {"send_exit", "close_docker"} =>
          /\ container # "running"
          /\ res = exitCode
    /\ ExitMsgs # <<>> =>
          /\ container \in {"exited", "removed"}
          /\ ExitMsgs[1].code = exitCode
          /\ ExitMsgs[1].code = res

\* Both log feeds have ended and both tasks returned, the process still runs:
\* the handler is held in the wait and has sent no exit message.
C11_Witness ==
    /\ pc = "wait"
    /\ AllDone
    /\ \A s \in Streams : eos[s]
    /\ container = "running"
    /\ ExitMsgs = <<>>

\* The handler ended by the exception of docker.containers.run: the engine
\* client is open, every file is written and no container exists.
LaunchFailed ==
    /\ pc = "raised"
    /\ docker = "open"
    /\ files = <<>>
    /\ container = "none"

\* C12: when the container launch fails the session sends an Error event (the
\* client still being there to take it), releases the workspace and ends with
\* neither task started and no data or exit message sent.
C12_LaunchFailureReported ==
    LaunchFailed =>
        /\ ~clientGone => ErrorMsgs # <<>>
        /\ tempdir = "removed"
        /\ \A s \in Streams : task[s].pc = "unborn"
        /\ DataMsgs = <<>> /\ ExitMsgs = <<>>

\* The task of stream s ended by the exception of its send: the line it had
\* taken is not on the wire.
FailedInSend(s) == task[s].pc = "failed" /\ Len(TextsOf(wire, s)) < task[s].taken

\* The client went away while streaming was in progress (data had reached it)
\* and the handler ended by the exception of a send that followed.
DisconnectedMidStream ==
    /\ pc = "raised"
    /\ clientGone
    /\ DataMsgs # <<>>
    /\ \E s \in Streams : FailedInSend(s)
    /\ \A s \in Streams : task[s].pc = "failed" => FailedInSend(s)

\* C13: after a client disconnect in mid-stream the session has ended with
\* neither task still running, and with the container and the workspace
\* removed.
C13_DisconnectCleansUp ==
    DisconnectedMidStream =>
        /\ \A s \in Streams : ~Alive(s)
        /\ container = "removed"
        /\ tempdir = "removed"

\* C14: on a session that has not failed, the workspace is removed only once
\* the exit message has been sent and never while the container is running.
C14_WorkspaceKeptUntilExitSent ==
    (tempdir = "removed" /\ pc # "raised") =>
        /\ ExitMsgs # <<>>
        /\ container # "running"

\* C15: when the session has ended, a container it launched has been removed.
C15_ContainerRemovedAtEnd ==
    (Ended /\ container # "none") => container = "removed"

\* C16: once the handler has moved past the streaming step, by its end or by
\* the exception of a task, neither task is still running.
C16_NoTaskAfterStreaming ==
    pc \in {"wait", "send_exit", "close_docker", "returned", "raised"} =>
        \A s \in Streams : ~Alive(s)

\* C18: a session with a valid submission, a container that launched and
\* whose process has exited, both log feeds drained to their end and the
\* client still there does not end otherwise than by returning with the exit
\* message sent.
C18_EndsWithExit ==
    ( /\ Ended
      /\ PassedValidation
      /\ container \in {"exited", "removed"}
      /\ AllDone
      /\ ~clientGone ) =>
        /\ pc = "returned"
        /\ ExitMsgs # <<>>

\* C19: a container exists only when the file loop has written every file of
\* the submission, and a session that ended with a file unwritten has
\* launched no container.
C19_LaunchAfterAllFiles ==
    /\ container # "none" =>
          /\ files = <<>>
          /\ msg.files = "ok"
          /\ tempdir = "exists" => Cardinality(fs) = fileIdx
    /\ files # <<>> => (container = "none" /\ \A s \in Streams : task[s].pc = "unborn")

\* Two files written and the container running on them.
C19_Witness ==
    /\ container = "running"
    /\ tempdir = "exists"
    /\ fileIdx = 2
    /\ Cardinality(fs) = 2

\* C20: when the handler has ended, an engine client it opened is closed.
C20_DockerClientClosed ==
    (Ended /\ docker # "none") => docker = "closed"

\* C17: under the event loop's scheduling every line the engine has put on a
\* stream is in the end sent as a data message, unless the task of that stream
\* has ended by an exception; what the other stream does, or fails to do, has
\* no part in it.
C17_LinesForwarded ==
    \A s \in Streams : \A n \in 1..MaxLines :
        (Len(produced[s]) >= n) ~> (Len(TextsOf(wire, s)) >= n \/ task[s].pc = "failed")

\* Two lines of stdout sent while the stderr task waits for a first line on a
\* feed that is still open.
C17_Witness ==
    /\ TextsOf(wire, "stdout") = <<1, 2>>
    /\ task["stderr"].pc = "next"
    /\ produced["stderr"] = <<>>
    /\ ~eos["stderr"]

====
